---- MODULE Spec2Model ----
(***************************************************************************)
(* A state-machine model of src/build.py: the Build helper that resolves   *)
(* CodeBuild build details (and batch details), detects PR builds and      *)
(* copies CloudWatch logs to S3.                                           *)
(*                                                                         *)
(* Python dicts are functions with a string domain ('k' in d is            *)
(* k \in DOMAIN d); Python strings are tuples of one-character strings.    *)
(* The three AWS services are state: what CodeBuild holds for the build id *)
(* and the batch id, and the pages CloudWatch serves.  Whether a single    *)
(* service call fails is chosen per call.                                  *)
(***************************************************************************)
EXTENDS Integers, Sequences, FiniteSets, TLC

VARIABLES
    build_event,        \* build_event['detail'] as given to __init__
    status,             \* self.status
    group_identifier,   \* self.group_identifier
    has_build_details,  \* hasattr(self, '_build_details')
    build_details,      \* self._build_details
    batch,              \* local `batch` of _process_batch (last value bound)
    batch_exit,         \* the point at which _process_batch was left
    pc,                 \* the external call the running accessor is about to make
    op,                 \* the accessor being (or last) invoked
    result,             \* how the last invocation ended: returned value / raised exception
    page_no,            \* pages consumed so far by the paginator of copy_logs
    logs_content,       \* the text joined so far in copy_logs
    calls,              \* every external service call made, in order
    mark,               \* Len(calls) when the current invocation started
    bucket,             \* the objects written to BUCKET, in order
    cb_builds,          \* CodeBuild: response['builds'] for ids=[self.id]
    cb_batch,           \* CodeBuild: the batch stored under KnownBatchId
    cw_pages            \* CloudWatch: the pages of the build's log stream

vars == <<build_event, status, group_identifier, has_build_details, build_details,
          batch, batch_exit, pc, op, result, page_no, logs_content, calls, mark,
          bucket, cb_builds, cb_batch, cw_pages>>

-----------------------------------------------------------------------------
(* Bounds of the model *)

\* longest buildGroups list of a batch
MaxGroups == 2
\* an accessor that needs a service call is invoked only while the instance
\* has made fewer external calls than this
MaxPrior == 3
\* most pages of the log stream
MaxPages == 2
\* most events of the log stream
MaxEvents == 3
\* longest tail enumerated after each sourceVersion prefix
MaxTail == 3

-----------------------------------------------------------------------------
(* Python values *)

EmptyDict == [k \in {} |-> k]

Has(d, k) == k \in DOMAIN d

\* d[k] = v on a dict
SetItem(d, k, v) == (k :> v) @@ d

\* the dicts that may or may not carry key k, with a value of S
Opt(k, S) == {EmptyDict} \cup {k :> v : v \in S}

None == "<None>"

NoneVal == [type |-> "NoneType"]
IntVal(n) == [type |-> "int", int |-> n]
BoolVal(b) == [type |-> "bool", bool |-> b]
StrVal(s) == [type |-> "str", str |-> s]

Running == [state |-> "running"]
Returned(v) == [state |-> "returned", value |-> v]
Raised(t, l) == [state |-> "raised", exc |-> t, line |-> l]

Digits == {"0", "1", "2", "3", "4", "5", "6", "7", "8", "9"}

DigitVal == ("0" :> 0) @@ ("1" :> 1) @@ ("2" :> 2) @@ ("3" :> 3) @@ ("4" :> 4) @@
            ("5" :> 5) @@ ("6" :> 6) @@ ("7" :> 7) @@ ("8" :> 8) @@ ("9" :> 9)

\* the sequences over S of length at most n
SeqsUpTo(S, n) == UNION {[1..k -> S] : k \in 0..n}

\* str.split(sep): the pieces of s between occurrences of the character sep
RECURSIVE SplitFrom(_, _, _, _)
SplitFrom(s, sep, i, cur) ==
    IF i > Len(s) THEN <<cur>>
    ELSE IF s[i] = sep THEN <<cur>> \o SplitFrom(s, sep, i + 1, <<>>)
    ELSE SplitFrom(s, sep, i + 1, Append(cur, s[i]))

split(s, sep) == SplitFrom(s, sep, 1, <<>>)

\* ''.join(strs)
RECURSIVE join(_)
join(strs) == IF strs = <<>> THEN <<>> ELSE Head(strs) \o join(Tail(strs))

\* int(digits)
RECURSIVE int(_)
int(ds) == IF ds = <<>> THEN 0 ELSE 10 * int(SubSeq(ds, 1, Len(ds) - 1)) + DigitVal[ds[Len(ds)]]

-----------------------------------------------------------------------------
(* get_pr_id, is_pr_build, commit_id *)

\* the end of the greedy \d+ run of s that starts at index i (i - 1 when there is none)
RECURSIVE DigitRunEnd(_, _)
DigitRunEnd(s, i) ==
    IF i <= Len(s) /\ s[i] \in Digits THEN DigitRunEnd(s, i + 1) ELSE i - 1

\* re.match(r'^pr\/(\d+)', s): group(1), or None when there is no match
re_match_pr(s) ==
    IF /\ Len(s) >= 4
       /\ s[1] = "p" /\ s[2] = "r" /\ s[3] = "/"
       /\ s[4] \in Digits
    THEN [matched |-> TRUE, group1 |-> SubSeq(s, 4, DigitRunEnd(s, 4))]
    ELSE [matched |-> FALSE]

\* Build.get_pr_id on the (resolved) build details d
get_pr_id(d) ==
    LET matches == re_match_pr(IF Has(d, "sourceVersion") THEN d["sourceVersion"] ELSE <<>>)
    IN  IF ~matches.matched THEN NoneVal ELSE IntVal(int(matches.group1))

\* truthiness of the id instead of `is not None`
is_pr_build_truthy(d) ==
    BoolVal(get_pr_id(d) # NoneVal /\ get_pr_id(d) # IntVal(0))

\* Build.is_pr_build
is_pr_build(d) == BoolVal(get_pr_id(d) # NoneVal)

\* Build.commit_id: KeyError when resolvedSourceVersion is absent
commit_id(d) ==
    IF Has(d, "resolvedSourceVersion")
    THEN Returned(StrVal(d["resolvedSourceVersion"]))
    ELSE Raised("KeyError", 39)

-----------------------------------------------------------------------------
(* _get_logs_key, get_logs_url *)

\* Build._get_logs_key: '{}/build.log'.format(log_stream)
_get_logs_key(d) ==
    d["logs"]["streamName"] \o <<"/", "b", "u", "i", "l", "d", ".", "l", "o", "g">>

\* urllib.parse.quote_plus on one character: unreserved characters are kept,
\* a space becomes '+', anything else is percent-encoded
quote_plus_char(c) ==
    IF c = " " THEN <<"+">>
    ELSE IF c = "/" THEN <<"%", "2", "F">>
    ELSE IF c = ":" THEN <<"%", "3", "A">>
    ELSE <<c>>

quote_plus(s) == join([i \in 1..Len(s) |-> quote_plus_char(s[i])])

\* config.BUILD_LOGS_API_ENDPOINT
BUILD_LOGS_API_ENDPOINT == <<"h", ":", "/", "/", "e">>

\* Build.get_logs_url
get_logs_url(d) ==
    IF ~Has(d, "logs") THEN Raised("KeyError", 69)
    ELSE Returned(StrVal(BUILD_LOGS_API_ENDPOINT \o <<"?", "k", "e", "y", "=">>
                         \o quote_plus(_get_logs_key(d))))

-----------------------------------------------------------------------------
(* _process_batch *)

NotRun == [how |-> "not_run", line |-> 0]
ReturnAt(l) == [how |-> "return", line |-> l]
RaiseAt(l) == [how |-> "raise", line |-> l]

\* a callback that does not compare the arn
iterator_callback_any_summary(group, d) == Has(group, "currentBuildSummary")

\* iterator_callback(group) of _process_batch, for build details d
iterator_callback(group, d) ==
    IF ~Has(group, "currentBuildSummary") THEN FALSE
    ELSE IF ~Has(group["currentBuildSummary"], "arn") THEN FALSE
    ELSE group["currentBuildSummary"]["arn"] = d["arn"]

\* the last accepted group instead of the first
next_filter_last(groups, d, i) ==
    LET acc == {k \in i..Len(groups) :
                   /\ Has(groups[k], "currentBuildSummary")
                   /\ Has(groups[k]["currentBuildSummary"], "arn")
                   /\ groups[k]["currentBuildSummary"]["arn"] = d["arn"]}
    IN  IF acc = {} THEN 0 ELSE CHOOSE k \in acc : \A m \in acc : m <= k

\* next(filter(iterator_callback, groups), False): the index of the first group
\* the callback accepts, from index i on; 0 stands for False
RECURSIVE next_filter(_, _, _)
next_filter(groups, d, i) ==
    IF i > Len(groups) THEN 0
    ELSE IF iterator_callback(groups[i], d) THEN i
    ELSE next_filter(groups, d, i + 1)

\* the exception classes the try of _process_batch swallows
Caught(exc) == exc = "KeyError"

\* the id _process_batch asks for: buildBatchArn.split('/')[1]
BatchIdAt(parts) == parts[2]

\* sourceVersion pushed up only once a group was found
process_batch_tail_late_overwrite(d, b, st, gid) ==
    IF ~Has(b, "sourceVersion")
    THEN [details |-> d, status |-> st, group_identifier |-> gid, exit |-> ReturnAt(93)]
    ELSE IF ~Has(b, "buildGroups")
    THEN [details |-> d, status |-> st, group_identifier |-> gid, exit |-> ReturnAt(102)]
    ELSE
    LET g == IF \E k \in 1..Len(b["buildGroups"]) :
                   /\ Has(b["buildGroups"][k], "currentBuildSummary")
                   /\ Has(b["buildGroups"][k]["currentBuildSummary"], "arn")
                   /\ b["buildGroups"][k]["currentBuildSummary"]["arn"] = d["arn"]
             THEN CHOOSE k \in 1..Len(b["buildGroups"]) :
                   /\ Has(b["buildGroups"][k], "currentBuildSummary")
                   /\ Has(b["buildGroups"][k]["currentBuildSummary"], "arn")
                   /\ b["buildGroups"][k]["currentBuildSummary"]["arn"] = d["arn"]
                   /\ \A m \in 1..(k - 1) :
                         ~(/\ Has(b["buildGroups"][m], "currentBuildSummary")
                           /\ Has(b["buildGroups"][m]["currentBuildSummary"], "arn")
                           /\ b["buildGroups"][m]["currentBuildSummary"]["arn"] = d["arn"])
             ELSE 0
    IN  IF g = 0
        THEN [details |-> d, status |-> st, group_identifier |-> gid, exit |-> ReturnAt(119)]
        ELSE
        LET group == b["buildGroups"][g]
            d2 == SetItem(d, "sourceVersion", b["sourceVersion"])
        IN  IF ~Has(group, "identifier")
            THEN [details |-> d2, status |-> st, group_identifier |-> gid,
                  exit |-> ReturnAt(122)]
            ELSE IF ~Has(group["currentBuildSummary"], "buildStatus")
            THEN [details |-> d2, status |-> st,
                  group_identifier |-> group["identifier"], exit |-> RaiseAt(131)]
            ELSE [details |-> d2,
                  status |-> group["currentBuildSummary"]["buildStatus"],
                  group_identifier |-> group["identifier"], exit |-> ReturnAt(131)]

\* lines 92-131 of _process_batch, run on the fetched batch b: the build details,
\* status and group_identifier it leaves, and where it leaves
process_batch_tail(d, b, st, gid) ==
    IF ~Has(b, "sourceVersion")
    THEN [details |-> d, status |-> st, group_identifier |-> gid, exit |-> ReturnAt(93)]
    ELSE
    LET d2 == SetItem(d, "sourceVersion", b["sourceVersion"])
    IN  IF ~Has(b, "buildGroups")
        THEN [details |-> d2, status |-> st, group_identifier |-> gid, exit |-> ReturnAt(102)]
        ELSE
        LET g == next_filter(b["buildGroups"], d2, 1)
        IN  IF g = 0
            THEN [details |-> d2, status |-> st, group_identifier |-> gid,
                  exit |-> ReturnAt(119)]
            ELSE
            LET group == b["buildGroups"][g]
            IN  IF ~Has(group, "identifier")
                THEN [details |-> d2, status |-> st, group_identifier |-> gid,
                      exit |-> ReturnAt(122)]
                ELSE IF ~Has(group["currentBuildSummary"], "buildStatus")
                THEN [details |-> d2, status |-> st,
                      group_identifier |-> group["identifier"], exit |-> RaiseAt(131)]
                ELSE [details |-> d2,
                      status |-> group["currentBuildSummary"]["buildStatus"],
                      group_identifier |-> group["identifier"], exit |-> ReturnAt(131)]

-----------------------------------------------------------------------------
(* The services *)

\* the id under which CodeBuild holds cb_batch
KnownBatchId == <<"b", "1">>

\* one entry of the log of external calls: the API, how the statement making
\* the call ended ("ok", "raise": an exception left the accessor, "caught": the
\* exception was swallowed), and the page number (0 when the API has no pages)
ExtCall(api, end, n) == [api |-> api, end |-> end, n |-> n]

\* CODEBUILD.batch_get_build_batches(ids=[id]) under the per-call outcome:
\* a service error, a response without 'buildBatches', or the matching batches
batch_get_build_batches(outcome, id) ==
    IF outcome = "ClientError" THEN [exc |-> "ClientError", line |-> 86]
    ELSE IF outcome = "no_key" THEN [exc |-> "KeyError", line |-> 88]
    ELSE LET buildBatches == IF id = KnownBatchId THEN <<cb_batch>> ELSE <<>>
         IN  IF buildBatches = <<>> THEN [exc |-> "IndexError", line |-> 88]
             ELSE [exc |-> "none", batch |-> buildBatches[1]]

\* the messages of one page, last event first
Messages_reversed(page) ==
    [i \in 1..Len(page["events"]) |->
        page["events"][Len(page["events"]) + 1 - i]["message"]]

\* the messages of one page, in order
Messages(page) == [i \in 1..Len(page["events"]) |-> page["events"][i]["message"]]

\* the write issued after the first page
AfterPage_first_only(n) == "put_object"

\* the list comprehension of copy_logs goes on to the next page until the
\* paginator is exhausted; put_object follows the last page
AfterPage(n) == IF n = Len(cw_pages) THEN "put_object" ELSE "filter_log_events"

-----------------------------------------------------------------------------
(* The accessors as steps *)

Ops == {"get_pr_id", "is_pr_build", "commit_id", "copy_logs", "get_logs_url"}

world == <<build_event, cb_builds, cb_batch, cw_pages>>

\* the accessor returns or raises r
Finish(r) == pc' = "idle" /\ result' = r

\* no memoization: every _get_build_details fetches
NeedsFetch_always == TRUE

\* hasattr(self, '_build_details') is false: _get_build_details must fetch
NeedsFetch == ~has_build_details

\* accessor o goes on after _get_build_details() returned d
Resume(o, d) ==
    IF o = "copy_logs"
    THEN IF ~Has(d, "logs")
         THEN Finish(Raised("KeyError", 47)) /\ UNCHANGED <<page_no, logs_content>>
         ELSE /\ pc' = "filter_log_events"
              /\ result' = Running
              /\ page_no' = 0
              /\ logs_content' = <<>>
    ELSE /\ Finish(CASE o = "get_pr_id" -> Returned(get_pr_id(d))
                     [] o = "is_pr_build" -> Returned(is_pr_build(d))
                     [] o = "commit_id" -> commit_id(d)
                     [] o = "get_logs_url" -> get_logs_url(d))
         /\ UNCHANGED <<page_no, logs_content>>

\* the caller invokes accessor o; cached details are used without a call
Invoke(o) ==
    /\ pc = "idle"
    /\ (NeedsFetch \/ o = "copy_logs") => Len(calls) < MaxPrior
    /\ op' = o
    /\ mark' = Len(calls)
    /\ IF NeedsFetch
       THEN pc' = "batch_get_builds" /\ result' = Running
            /\ UNCHANGED <<page_no, logs_content>>
       ELSE Resume(o, build_details)
    /\ UNCHANGED <<status, group_identifier, has_build_details, build_details, batch,
                   batch_exit, calls, bucket, world>>

\* lines 74-82: CODEBUILD.batch_get_builds, response['builds'][0], and the
\* start of _process_batch
BatchGetBuilds ==
    /\ pc = "batch_get_builds"
    /\ \E outcome \in {"ok", "ClientError"} :
         IF outcome = "ClientError"
         THEN /\ calls' = Append(calls, ExtCall("batch_get_builds", "raise", 0))
              /\ Finish(Raised("ClientError", 74))
              /\ UNCHANGED <<has_build_details, build_details, batch_exit,
                             page_no, logs_content>>
         ELSE /\ calls' = Append(calls, ExtCall("batch_get_builds",
                                  IF cb_builds = <<>> THEN "raise" ELSE "ok", 0))
              /\ IF cb_builds = <<>>
                 THEN /\ Finish(Raised("IndexError", 75))
                      /\ UNCHANGED <<has_build_details, build_details, batch_exit,
                                     page_no, logs_content>>
                 ELSE /\ has_build_details' = TRUE
                      /\ build_details' = cb_builds[1]
                      /\ IF ~Has(cb_builds[1], "buildBatchArn")
                         THEN /\ batch_exit' = ReturnAt(82)
                              /\ Resume(op, cb_builds[1])
                         ELSE /\ pc' = "batch_get_build_batches"
                              /\ result' = Running
                              /\ UNCHANGED <<batch_exit, page_no, logs_content>>
    /\ UNCHANGED <<status, group_identifier, batch, op, mark, bucket, world>>

\* lines 85-131: CODEBUILD.batch_get_build_batches and the rest of _process_batch
BatchGetBuildBatches ==
    /\ pc = "batch_get_build_batches"
    /\ LET parts == split(build_details["buildBatchArn"], "/")
       IN  IF Len(parts) < 2
           THEN /\ batch_exit' = RaiseAt(87)
                /\ Finish(Raised("IndexError", 87))
                /\ UNCHANGED <<status, group_identifier, build_details, batch, calls,
                               page_no, logs_content>>
           ELSE \E outcome \in {"ok", "ClientError", "no_key"} :
                LET r == batch_get_build_batches(outcome, BatchIdAt(parts))
                IN  /\ calls' = Append(calls, ExtCall("batch_get_build_batches",
                                     IF r.exc = "none" THEN "ok"
                                     ELSE IF Caught(r.exc) THEN "caught" ELSE "raise", 0))
                    /\ IF r.exc # "none"
                       THEN /\ UNCHANGED <<status, group_identifier, build_details, batch>>
                            /\ IF Caught(r.exc)
                               THEN /\ batch_exit' = ReturnAt(90)
                                    /\ Resume(op, build_details)
                               ELSE /\ batch_exit' = RaiseAt(r.line)
                                    /\ Finish(Raised(r.exc, r.line))
                                    /\ UNCHANGED <<page_no, logs_content>>
                       ELSE LET t == process_batch_tail(build_details, r.batch,
                                                        status, group_identifier)
                            IN  /\ batch' = r.batch
                                /\ build_details' = t.details
                                /\ status' = t.status
                                /\ group_identifier' = t.group_identifier
                                /\ batch_exit' = t.exit
                                /\ IF t.exit.how = "raise"
                                   THEN /\ Finish(Raised("KeyError", t.exit.line))
                                        /\ UNCHANGED <<page_no, logs_content>>
                                   ELSE Resume(op, t.details)
    /\ UNCHANGED <<has_build_details, op, mark, bucket, world>>

\* lines 50-56: the paginator fetches the next page and its messages are joined
FilterLogEvents ==
    /\ pc = "filter_log_events"
    /\ \E outcome \in {"ok", "ClientError"} :
         IF outcome = "ClientError"
         THEN /\ calls' = Append(calls, ExtCall("filter_log_events", "raise", page_no + 1))
              /\ Finish(Raised("ClientError", 56))
              /\ UNCHANGED <<page_no, logs_content>>
         ELSE /\ calls' = Append(calls, ExtCall("filter_log_events", "ok", page_no + 1))
              /\ page_no' = page_no + 1
              /\ logs_content' = logs_content \o join(Messages(cw_pages[page_no + 1]))
              /\ pc' = AfterPage(page_no + 1)
              /\ result' = Running
    /\ UNCHANGED <<status, group_identifier, has_build_details, build_details, batch,
                   batch_exit, op, mark, bucket, world>>

\* the object copy_logs writes
LogsObject == [Key |-> _get_logs_key(build_details),
               Body |-> logs_content,
               ContentType |-> "text/plain"]

\* lines 58-62: BUCKET.put_object
PutObject ==
    /\ pc = "put_object"
    /\ \E outcome \in {"ok", "ClientError"} :
         IF outcome = "ClientError"
         THEN /\ calls' = Append(calls, ExtCall("put_object", "raise", 0))
              /\ Finish(Raised("ClientError", 58))
              /\ UNCHANGED bucket
         ELSE /\ calls' = Append(calls, ExtCall("put_object", "ok", 0))
              /\ bucket' = Append(bucket, LogsObject)
              /\ Finish(Returned(NoneVal))
    /\ UNCHANGED <<status, group_identifier, has_build_details, build_details, batch,
                   batch_exit, op, mark, page_no, logs_content, world>>

Next ==
    \/ \E o \in Ops : Invoke(o)
    \/ BatchGetBuilds
    \/ BatchGetBuildBatches
    \/ FilterLogEvents
    \/ PutObject

-----------------------------------------------------------------------------
(* The worlds the instance is run against *)

PR7 == <<"p", "r", "/", "7">>
PR42 == <<"p", "r", "/", "4", "2">>
Hash == <<"a", "1", "b", "2", "c", "3">>
Commit == <<"c", "0", "f", "e">>

OwnArn == "arn:build/own"
OtherArn == "arn:build/other"

\* a buildBatchArn whose second segment is the batch CodeBuild holds, one whose
\* second segment CodeBuild does not know, and one without a '/'
GoodBatchArn == <<"a", "/", "b", "1">>
UnknownBatchArn == <<"a", "/", "b", "2">>
NoSlashArn == <<"a", "b", "1">>

Logs(stream) == [groupName |-> <<"g">>, streamName |-> stream]

Event(s) == ("build-id" :> "proj:1") @@ ("project-name" :> "proj") @@ ("build-status" :> s)

Events == {Event(s) : s \in {"FAILED", "SUCCEEDED"}}

Summary(arn, buildStatus) == [arn |-> arn, buildStatus |-> buildStatus]

\* group records: complete ones for this build and for a sibling, and ones
\* lacking identifier, buildStatus, arn or currentBuildSummary
Groups == {
    [identifier |-> "g1", currentBuildSummary |-> Summary(OwnArn, "SUCCEEDED")],
    [identifier |-> "g2", currentBuildSummary |-> Summary(OwnArn, "FAILED")],
    [currentBuildSummary |-> Summary(OwnArn, "SUCCEEDED")],
    [identifier |-> "g1", currentBuildSummary |-> [arn |-> OwnArn]],
    [identifier |-> "g2", currentBuildSummary |-> Summary(OtherArn, "SUCCEEDED")],
    [identifier |-> "g2", currentBuildSummary |-> [buildStatus |-> "SUCCEEDED"]],
    [identifier |-> "g2"] }

Batches(svs) ==
    {sv @@ bg : sv \in Opt("sourceVersion", svs),
                bg \in Opt("buildGroups", SeqsUpTo(Groups, MaxGroups))}

DefaultBatch == [sourceVersion |-> PR7]

\* build details of an item of the batch CodeBuild holds
BatchItems(svs) ==
    {("arn" :> OwnArn) @@ ("logs" :> Logs(<<"s">>)) @@ ("resolvedSourceVersion" :> Commit)
       @@ ("buildBatchArn" :> GoodBatchArn) @@ sv : sv \in Opt("sourceVersion", svs)}

\* build details of a build outside any batch CodeBuild holds
PlainBuilds(svs, arns, streams) ==
    {("arn" :> OwnArn) @@ lg @@ rsv @@ ba @@ sv :
        sv \in Opt("sourceVersion", svs),
        rsv \in Opt("resolvedSourceVersion", {Commit}),
        lg \in Opt("logs", {Logs(st) : st \in streams}),
        ba \in Opt("buildBatchArn", arns)}

Page(msgs) == [events |-> [i \in 1..Len(msgs) |-> [message |-> msgs[i]]]]

\* the two pages ["A: ", "B\n"] and ["C: ", "D\n"]
ExamplePages == << Page(<< <<"A", ":", " ">>, <<"B", "\n">> >>),
                   Page(<< <<"C", ":", " ">>, <<"D", "\n">> >>) >>

\* the state after __init__(build_event) against the given services
InitWith(event, builds, b, pages) ==
    /\ build_event = event
    /\ cb_builds = builds
    /\ cb_batch = b
    /\ cw_pages = pages
    /\ status = event["build-status"]
    /\ group_identifier = None
    /\ has_build_details = FALSE
    /\ build_details = EmptyDict
    /\ batch = EmptyDict
    /\ batch_exit = NotRun
    /\ pc = "idle"
    /\ op = "__init__"
    /\ result = Returned(NoneVal)
    /\ page_no = 0
    /\ logs_content = <<>>
    /\ calls = <<>>
    /\ mark = 0
    /\ bucket = <<>>

\* batch resolution: every batch over Groups, and builds outside a batch
Init ==
    \E event \in Events :
       \/ \E d \in BatchItems({Hash}), b \in Batches({PR7, Hash}) :
             InitWith(event, <<d>>, b, ExamplePages)
       \/ \E d \in PlainBuilds({Hash, PR42}, {UnknownBatchArn, NoSlashArn}, {<<"s">>}) :
             InitWith(event, <<d>>, DefaultBatch, ExamplePages)
       \/ InitWith(event, <<>>, DefaultBatch, ExamplePages)

\* log copying: every log stream of at most MaxPages pages of at most
\* MaxEvents events, and the two example pages, for a plain build and for a
\* batch item
LogMessages == {<<"A", ":", " ">>, <<"B", "\n">>}

RECURSIVE NumEvents(_)
NumEvents(pages) ==
    IF pages = <<>> THEN 0 ELSE Len(Head(pages)["events"]) + NumEvents(Tail(pages))

PageSeqs == {ps \in SeqsUpTo({Page(msgs) : msgs \in SeqsUpTo(LogMessages, MaxEvents)},
                             MaxPages) : ps # <<>> /\ NumEvents(ps) <= MaxEvents}

InitLogs ==
    \E pages \in PageSeqs \cup {ExamplePages} :
       \/ \E d \in BatchItems({Hash}) :
             InitWith(Event("SUCCEEDED"), <<d>>, DefaultBatch, pages)
       \/ InitWith(Event("SUCCEEDED"),
                   << ("arn" :> OwnArn) @@ ("logs" :> Logs(<<"m", " ", "s", "/", "1">>)) >>,
                   DefaultBatch, pages)

\* PR detection: every sourceVersion made of one of the prefixes and a tail of
\* at most MaxTail characters, on the build itself and on its batch
Prefixes == {<<>>, <<"p", "r", "/">>, <<"p", "r">>, <<"r", "/">>, <<"a", "p", "r", "/">>}

TailChars == {"0", "7", "a"}

SourceVersions == {p \o t : p \in Prefixes, t \in SeqsUpTo(TailChars, MaxTail)}

InitPr ==
    \/ \E d \in BatchItems({Hash}), sv \in SourceVersions :
          InitWith(Event("SUCCEEDED"), <<d>>, [sourceVersion |-> sv], ExamplePages)
    \/ \E sv \in Opt("sourceVersion", SourceVersions) :
          InitWith(Event("SUCCEEDED"),
                   << ("arn" :> OwnArn) @@ ("logs" :> Logs(<<"s">>)) @@ sv >>,
                   DefaultBatch, ExamplePages)

Spec == Init /\ [][Next]_vars

SpecLogs == InitLogs /\ [][Next]_vars

SpecPr == InitPr /\ [][Next]_vars

-----------------------------------------------------------------------------
(* Vocabulary of the properties *)

\* the calls of the current (or last) invocation
Cur == (mark + 1)..Len(calls)

Idle == pc = "idle" /\ op \in Ops

ReturnedNormally == Idle /\ result.state = "returned"

\* the current invocation is the one that fetched the build details
Triggering == \E i \in Cur : calls[i].api = "batch_get_builds"

\* the batch lookup returned a batch and lines 92-131 ran on it
BatchFetched == batch_exit.how # "not_run" /\ batch_exit.line >= 92

\* the groups of the fetched batch whose currentBuildSummary.arn is this build's arn
Matching ==
    {i \in 1..Len(batch["buildGroups"]) :
        /\ "currentBuildSummary" \in DOMAIN batch["buildGroups"][i]
        /\ "arn" \in DOMAIN batch["buildGroups"][i]["currentBuildSummary"]
        /\ batch["buildGroups"][i]["currentBuildSummary"]["arn"] = cb_builds[1]["arn"]}

\* the first of them, in buildGroups order
FirstMatching == batch["buildGroups"][CHOOSE i \in Matching : \A j \in Matching : i <= j]

HasGroups == BatchFetched /\ Has(batch, "sourceVersion") /\ Has(batch, "buildGroups")

BuildLookups == {i \in 1..Len(calls) : calls[i].api = "batch_get_builds"}

-----------------------------------------------------------------------------
(* C1 *)

\* C1 as stated: whatever the sequence of accessor calls, also after a service
\* call raised, batch_get_builds is called at most once per instance.
C1_AtMostOneLookup == Cardinality(BuildLookups) <= 1

\* C1 amended: once a batch_get_builds call has returned the build, it is not
\* called again and the details stay cached; only a lookup that raised or
\* returned no build is repeated by a later accessor.
C1_NoLookupAfterSuccess ==
    /\ \A i \in BuildLookups : calls[i].end = "ok" => \A j \in BuildLookups : j <= i
    /\ has_build_details <=> \E i \in BuildLookups : calls[i].end = "ok"
    /\ has_build_details /\ batch_exit.how # "not_run" /\ batch_exit.line < 99
          => build_details = cb_builds[1]

\* a second lookup followed a failed one, and a later accessor was then served
\* from the cache without any call
C1_Witness ==
    /\ Cardinality(BuildLookups) = 2
    /\ ReturnedNormally
    /\ has_build_details
    /\ mark = Len(calls)

-----------------------------------------------------------------------------
(* C2 *)

\* C2: for a batch build whose batch was fetched and has sourceVersion and
\* buildGroups, with a first group (in buildGroups order) whose
\* currentBuildSummary.arn is this build's arn and that carries identifier and
\* buildStatus: after resolution, status is that group's buildStatus and
\* group_identifier its identifier, whatever build-status the event carried.
C2_FirstMatchingGroupWins ==
    (/\ HasGroups
     /\ Matching # {}
     /\ Has(FirstMatching, "identifier")
     /\ Has(FirstMatching["currentBuildSummary"], "buildStatus"))
    => /\ status = FirstMatching["currentBuildSummary"]["buildStatus"]
       /\ group_identifier = FirstMatching["identifier"]
       /\ batch_exit = ReturnAt(131)

\* event FAILED, two groups with this build's arn, the first one SUCCEEDED
C2_Witness ==
    /\ HasGroups
    /\ Matching = {1, 2}
    /\ build_event["build-status"] = "FAILED"
    /\ batch["buildGroups"][2] = [identifier |-> "g2",
                                  currentBuildSummary |-> Summary(OwnArn, "FAILED")]
    /\ status = "SUCCEEDED"
    /\ group_identifier = "g1"
    /\ ReturnedNormally

-----------------------------------------------------------------------------
(* C4 *)

\* C4: when the batch lookup raises a service error (line 86) or returns no
\* entry in buildBatches (line 88), batch resolution returns without raising
\* and leaves group_identifier, status and the build details as they were.
C4_LookupFailureIsNoOp ==
    (batch_exit.how # "not_run" /\ batch_exit.line \in {86, 88})
    => /\ batch_exit.how = "return"
       /\ group_identifier = None
       /\ status = build_event["build-status"]
       /\ build_details = cb_builds[1]
       /\ Idle /\ Triggering /\ op \in {"get_pr_id", "is_pr_build"}
             => result.state = "returned"

-----------------------------------------------------------------------------
(* C9 *)

\* C9: group_identifier is set only together with the status override: whenever
\* group_identifier is not None, status is the buildStatus of the matched group.
C9_IdentifierWithStatus ==
    group_identifier # None
    => /\ HasGroups
       /\ Matching # {}
       /\ Has(FirstMatching["currentBuildSummary"], "buildStatus")
       /\ status = FirstMatching["currentBuildSummary"]["buildStatus"]

-----------------------------------------------------------------------------
(* C10 *)

\* C10: an accessor that returns normally for a batch build was served details
\* on which batch resolution ran to one of its return points.
C10_NeverServedUnresolved ==
    (ReturnedNormally /\ has_build_details /\ Has(build_details, "buildBatchArn"))
    => batch_exit.how = "return"

-----------------------------------------------------------------------------
(* What "pr/<digits> at the start" means, stated without the matcher *)

\* the length of the longest run of digits of s that starts right after s[3]
LeadingDigits(s) ==
    CHOOSE k \in 0..(Len(s) - 3) :
        /\ \A i \in 1..k : s[3 + i] \in Digits
        /\ 3 + k = Len(s) \/ s[3 + k + 1] \notin Digits

RECURSIVE Pow10(_)
Pow10(n) == IF n = 0 THEN 1 ELSE 10 * Pow10(n - 1)

\* the decimal value of the k digits s[4] .. s[3+k], most significant first
RECURSIVE DecimalFrom(_, _, _)
DecimalFrom(s, k, i) ==
    IF i > k THEN 0 ELSE DigitVal[s[3 + i]] * Pow10(k - i) + DecimalFrom(s, k, i + 1)

StartsWithPr(s) == Len(s) >= 3 /\ <<s[1], s[2], s[3]>> = <<"p", "r", "/">>

\* the PR id a sourceVersion denotes, or NoneVal
ExpectedPrId(s) ==
    IF StartsWithPr(s) /\ LeadingDigits(s) >= 1
    THEN IntVal(DecimalFrom(s, LeadingDigits(s), 1))
    ELSE NoneVal

-----------------------------------------------------------------------------
(* C3 *)

\* C3: once a batch with a sourceVersion was fetched, the cached build details
\* carry the batch's sourceVersion, whatever the per-item one was and wherever
\* the group lookup ends; get_pr_id then returns N and is_pr_build true when it
\* is "pr/N", and the accessor that triggered the resolution returns normally
\* when the batch has no buildGroups, no matching group or a matching group
\* without identifier.
C3_BatchSourceVersionWins ==
    (BatchFetched /\ Has(batch, "sourceVersion"))
    => /\ batch_exit.line >= 102
       /\ Has(build_details, "sourceVersion")
       /\ build_details["sourceVersion"] = batch["sourceVersion"]
       /\ ReturnedNormally /\ op = "get_pr_id"
             => result.value = ExpectedPrId(batch["sourceVersion"])
       /\ ReturnedNormally /\ op = "is_pr_build"
             => result.value = BoolVal(ExpectedPrId(batch["sourceVersion"]) # NoneVal)
       /\ (/\ Idle /\ Triggering /\ op \in {"get_pr_id", "is_pr_build"}
           /\ \/ ~Has(batch, "buildGroups")
              \/ Matching = {}
              \/ ~Has(FirstMatching, "identifier"))
             => result.state = "returned"

\* the per-item sourceVersion is a commit hash, the batch has no buildGroups and
\* its sourceVersion is pr/7: is_pr_build answered true
C3_Witness ==
    /\ BatchFetched
    /\ Has(cb_builds[1], "sourceVersion")
    /\ cb_builds[1]["sourceVersion"] = Hash
    /\ batch = [sourceVersion |-> PR7]
    /\ ReturnedNormally /\ Triggering
    /\ op = "is_pr_build"
    /\ result.value = BoolVal(TRUE)

-----------------------------------------------------------------------------
(* C5 *)

\* the benign conditions of batch resolution, and the line each returns at
BenignExit ==
    IF ~Has(build_details, "buildBatchArn") THEN 82
    ELSE IF ~BatchFetched THEN 0
    ELSE IF ~Has(batch, "sourceVersion") THEN 93
    ELSE IF ~Has(batch, "buildGroups") THEN 102
    ELSE IF Matching = {} THEN 119
    ELSE IF ~Has(FirstMatching, "identifier") THEN 122
    ELSE 0

\* C5: build details without buildBatchArn, a batch without sourceVersion or
\* without buildGroups, no group matching this build's arn, a matching group
\* without identifier: each ends batch resolution by a return, with status the
\* event's build-status and group_identifier None, and the accessor that
\* triggered the resolution is not ended by an exception of batch resolution.
C5_BenignConditionsAreNoOps ==
    (has_build_details /\ batch_exit.how # "not_run" /\ BenignExit # 0)
    => /\ batch_exit = ReturnAt(BenignExit)
       /\ status = build_event["build-status"]
       /\ group_identifier = None
       /\ Idle /\ Triggering /\ op \in {"get_pr_id", "is_pr_build"}
             => result.state = "returned"
       /\ Idle /\ Triggering /\ result.state = "raised"
             => result.line \notin 80..131

\* event FAILED, the matching group SUCCEEDED but without identifier: the
\* accessor returned and status is still FAILED
C5_Witness ==
    /\ has_build_details /\ BatchFetched
    /\ BenignExit = 122
    /\ build_event["build-status"] = "FAILED"
    /\ FirstMatching["currentBuildSummary"]["buildStatus"] = "SUCCEEDED"
    /\ ReturnedNormally /\ Triggering
    /\ status = "FAILED"

-----------------------------------------------------------------------------
(* C8 *)

IsCall(c, api) == c.api = api

\* what may directly follow call c within one invocation
MayFollow(c, nxt) ==
    CASE IsCall(c, "batch_get_builds") ->
            /\ c.end = "ok"
            /\ \/ IsCall(nxt, "batch_get_build_batches")
               \/ IsCall(nxt, "filter_log_events") /\ nxt.n = 1
      [] IsCall(c, "batch_get_build_batches") ->
            /\ c.end \in {"ok", "caught"}
            /\ IsCall(nxt, "filter_log_events") /\ nxt.n = 1
      [] IsCall(c, "filter_log_events") ->
            /\ c.end = "ok"
            /\ IF c.n = Len(cw_pages) THEN IsCall(nxt, "put_object")
               ELSE IsCall(nxt, "filter_log_events") /\ nxt.n = c.n + 1
      [] IsCall(c, "put_object") -> FALSE

\* C8: the external calls of one invocation are made in the order build details,
\* optional batch details, log pages, storage write.  The batch lookup directly
\* follows a build lookup that returned details carrying buildBatchArn; a log
\* page is requested only with the details fetched and, in the invocation that
\* fetched them, after batch resolution returned; the storage write directly
\* follows the pages 1..last; a call that raises is the last call of its
\* invocation, so no storage write follows it.
C8_CallOrder ==
    /\ \A i \in Cur : i + 1 \in Cur => MayFollow(calls[i], calls[i + 1])
    /\ \A i \in Cur : calls[i].end = "raise" => i = Len(calls) /\ Idle
                                                /\ result.state = "raised"
    /\ \A j \in 1..Len(calls) :
          IsCall(calls[j], "batch_get_build_batches")
          => /\ j > 1
             /\ calls[j - 1] = ExtCall("batch_get_builds", "ok", 0)
             /\ Has(cb_builds[1], "buildBatchArn")
    /\ \A j \in Cur :
          IsCall(calls[j], "filter_log_events")
          => /\ has_build_details
             /\ \E i \in 1..(j - 1) : calls[i] = ExtCall("batch_get_builds", "ok", 0)
             /\ Triggering => batch_exit.how = "return"
    /\ \A j \in 1..Len(calls) :
          IsCall(calls[j], "put_object")
          => /\ j > Len(cw_pages)
             /\ \A k \in 1..Len(cw_pages) :
                   calls[j - Len(cw_pages) + k - 1] = ExtCall("filter_log_events", "ok", k)
    /\ Len(bucket) = Cardinality({j \in 1..Len(calls) : calls[j] = ExtCall("put_object", "ok", 0)})
    /\ (Idle /\ result.state = "raised")
          => \A j \in Cur : IsCall(calls[j], "put_object") => j = Len(calls) /\ calls[j].end = "raise"

\* one copy_logs made all five calls: builds, batches, two pages, put
C8_Witness ==
    /\ mark = 0 /\ Len(calls) = 5
    /\ IsCall(calls[2], "batch_get_build_batches")
    /\ calls[5] = ExtCall("put_object", "ok", 0)
    /\ ReturnedNormally

-----------------------------------------------------------------------------
(* C6 *)

\* the text of every event of every page, page by page and event by event,
\* built from the last page backwards
RECURSIVE EventsText(_)
EventsText(events) ==
    IF events = <<>> THEN <<>>
    ELSE EventsText(SubSeq(events, 1, Len(events) - 1)) \o events[Len(events)]["message"]

RECURSIVE PagesText(_)
PagesText(pages) ==
    IF pages = <<>> THEN <<>>
    ELSE PagesText(SubSeq(pages, 1, Len(pages) - 1)) \o EventsText(pages[Len(pages)]["events"])

\* C6: a copy_logs that returns made exactly one storage write, with key
\* "<streamName>/build.log", content type text/plain and, as body, the messages
\* of all events of all pages in page order then in-page order, nothing between
\* them; the pages ["A: ", "B\n"], ["C: ", "D\n"] give "A: B\nC: D\n".
C6_OneWriteOfAllMessages ==
    (ReturnedNormally /\ op = "copy_logs")
    => /\ Cardinality({j \in Cur : IsCall(calls[j], "put_object")}) = 1
       /\ Len(bucket) = Cardinality({j \in 1..Len(calls) : IsCall(calls[j], "put_object")
                                                          /\ calls[j].end = "ok"})
       /\ bucket[Len(bucket)] =
             [Key |-> cb_builds[1]["logs"]["streamName"]
                         \o <<"/", "b", "u", "i", "l", "d", ".", "l", "o", "g">>,
              Body |-> PagesText(cw_pages),
              ContentType |-> "text/plain"]
       /\ cw_pages = ExamplePages
             => bucket[Len(bucket)].Body
                   = <<"A", ":", " ", "B", "\n", "C", ":", " ", "D", "\n">>

\* the two example pages were copied for the stream "m s/1"
C6_Witness ==
    /\ ReturnedNormally /\ op = "copy_logs"
    /\ cw_pages = << Page(<< <<"A", ":", " ">>, <<"B", "\n">> >>),
                     Page(<< <<"C", ":", " ">>, <<"D", "\n">> >>) >>
    /\ bucket = << [Key |-> <<"m", " ", "s", "/", "1", "/", "b", "u", "i", "l", "d",
                             ".", "l", "o", "g">>,
                    Body |-> <<"A", ":", " ", "B", "\n", "C", ":", " ", "D", "\n">>,
                    ContentType |-> "text/plain"] >>

-----------------------------------------------------------------------------
(* C7 *)

\* the sourceVersion the accessors see: the batch's once batch resolution pushed
\* it up, else the build's own, else the empty string
EffectiveSourceVersion ==
    IF batch_exit.how # "not_run" /\ batch_exit.line >= 102 THEN cb_batch["sourceVersion"]
    ELSE IF Has(cb_builds[1], "sourceVersion") THEN cb_builds[1]["sourceVersion"]
    ELSE <<>>

\* C7: get_pr_id returns N exactly when the (possibly batch-overridden)
\* sourceVersion starts with "pr/" and at least one digit, N being the value of
\* the longest leading run of digits, and None otherwise; is_pr_build is true
\* exactly when get_pr_id is not None, so "pr/0" is a PR build.
C7_PrIdOfSourceVersion ==
    /\ ReturnedNormally /\ op = "get_pr_id"
          => result.value = ExpectedPrId(EffectiveSourceVersion)
    /\ ReturnedNormally /\ op = "is_pr_build"
          => result.value = BoolVal(ExpectedPrId(EffectiveSourceVersion) # NoneVal)
    /\ ReturnedNormally /\ op = "is_pr_build" /\ EffectiveSourceVersion = <<"p", "r", "/", "0">>
          => result.value = BoolVal(TRUE)

\* "pr/0" on the build itself: is_pr_build answered true
C7_Witness ==
    /\ ReturnedNormally /\ op = "is_pr_build"
    /\ ~Has(cb_builds[1], "buildBatchArn")
    /\ Has(cb_builds[1], "sourceVersion")
    /\ cb_builds[1]["sourceVersion"] = <<"p", "r", "/", "0">>
    /\ result.value = BoolVal(TRUE)

====
